---- MODULE Spec2Model ----
(***************************************************************************)
(* A model of wpm (Windows Proxy Manager), src/main.go.                    *)
(*                                                                         *)
(* src/main.go holds three programs:                                       *)
(*   lines   1-198  the toggle program that manages the registry and the   *)
(*                  PowerShell profile,                                    *)
(*   lines 199-706  the interactive program (registry, PowerShell profile, *)
(*                  VS Code settings.json, .npmrc),                        *)
(*   lines 708-814  the registry-only toggle program.                      *)
(*                                                                         *)
(* A Go string is modelled as a sequence of tokens.  A token is either one *)
(* character ("\n", "\r", " ", "x", "1", ...) or a fixed piece of text that *)
(* the programs treat as a unit ("# Proxy Setting", "proxy=", an IP        *)
(* address).  The empty string is << >>.  strings.Split, strings.Join,     *)
(* strings.HasPrefix, strings.TrimRight, strings.TrimSpace and             *)
(* fmt.Sprintf are computed on these sequences.                            *)
(***************************************************************************)
EXTENDS Integers, Sequences, FiniteSets, TLC

VARIABLES
    ProxyServer,    \* registry value "ProxyServer" (a string)
    ProxyEnable,    \* registry value "ProxyEnable" (0 or 1)
    profile,        \* Microsoft.PowerShell_profile.ps1: [exists, data]
    settings,       \* Code\User\settings.json:          [exists, data]
    npmrc,          \* .npmrc:                           [exists, data]
    orig,           \* history: the files as they were initially
    before,         \* history: the files as they were before the last call
    last,           \* history: the last successful call
    prev,           \* history: the successful call before the last one
    envInput,       \* the text given to parseEnvironmentSelection
    selectedEnvs,   \* the mask parseEnvironmentSelection returned (-1: not yet called)
    run             \* the record of the last program run

vars == <<ProxyServer, ProxyEnable, profile, settings, npmrc, orig, before,
          last, prev, envInput, selectedEnvs, run>>

-----------------------------------------------------------------------------
(* Bounds of the model *)

\* the number of lines of an initial PowerShell profile
MaxLines == 4

\* the number of characters of an environment selection
MaxInput == 3

\* the size of the profile up to which toggle runs are followed: each
\* enable/disable cycle of the toggle program adds an empty line (line 106)
MaxProfileSize == 20

\* the number of members of an initial settings.json object
MaxMembers == 2

\* the number of lines of an initial .npmrc
MaxNpmLines == 3

\* the number of times the menu of the interactive program starts
\* applyProxySettings
MaxRuns == 1

-----------------------------------------------------------------------------
(* Strings *)

LF == "\n"
CR == "\r"
SP == " "

\* strings.HasPrefix(s, prefix)
HasPrefix(s, prefix) ==
    /\ Len(s) >= Len(prefix)
    /\ SubSeq(s, 1, Len(prefix)) = prefix

\* strings.Contains(s, substr)
Contains(s, substr) ==
    \E i \in 1..(Len(s) - Len(substr) + 1) :
        SubSeq(s, i, i + Len(substr) - 1) = substr

\* strings.TrimRight(s, "\r"): s without its trailing carriage returns
RECURSIVE TrimRightCR(_)
TrimRightCR(s) ==
    IF s # << >> /\ s[Len(s)] = CR
    THEN TrimRightCR(SubSeq(s, 1, Len(s) - 1))
    ELSE s

\* unicode.IsSpace on the characters of the model
IsSpace(c) == c \in {SP, CR, LF, "\t"}

RECURSIVE TrimLeftSpace(_)
TrimLeftSpace(s) ==
    IF s # << >> /\ IsSpace(s[1]) THEN TrimLeftSpace(Tail(s)) ELSE s

RECURSIVE TrimRightSpace(_)
TrimRightSpace(s) ==
    IF s # << >> /\ IsSpace(s[Len(s)])
    THEN TrimRightSpace(SubSeq(s, 1, Len(s) - 1))
    ELSE s

\* strings.TrimSpace(s)
TrimSpace(s) == TrimRightSpace(TrimLeftSpace(s))

\* the index of the first "\n" of s, 0 when there is none
RECURSIVE IndexLF(_, _)
IndexLF(s, i) ==
    IF i > Len(s) THEN 0
    ELSE IF s[i] = LF THEN i
    ELSE IndexLF(s, i + 1)

\* strings.Split(s, "\n"): always at least one element
RECURSIVE Split(_)
Split(s) ==
    LET i == IndexLF(s, 1)
    IN  IF i = 0 THEN <<s>>
        ELSE <<SubSeq(s, 1, i - 1)>> \o Split(SubSeq(s, i + 1, Len(s)))

\* strings.Join(elems, "\n")
RECURSIVE Join(_)
Join(elems) ==
    IF elems = << >> THEN << >>
    ELSE IF Len(elems) = 1 THEN elems[1]
    ELSE elems[1] \o <<LF>> \o Join(Tail(elems))

\* x := v; F(x): v is computed once, as an assignment does
Bind(v, F(_)) == CHOOSE r \in {F(x) : x \in {v}} : TRUE

-----------------------------------------------------------------------------
(* Files *)

NoFile == [exists |-> FALSE, data |-> << >>]
File(data) == [exists |-> TRUE, data |-> data]

-----------------------------------------------------------------------------
(* The PowerShell profile of the interactive program (lines 334-391) *)

\* the marker line "# Proxy Setting", one token
Sentinel == <<"# Proxy Setting">>

\* fmt.Sprintf of the block (lines 372-375): its six lines joined by "\n"
proxyBlock(proxyServer) ==
    Join(<< Sentinel,
            <<"$proxy = \"http://">> \o proxyServer \o <<"\"">>,
            <<"$env:HTTP_PROXY = $proxy">>,
            <<"$env:HTTPS_PROXY = $proxy">>,
            <<"[System.Net.WebRequest]::DefaultWebProxy = New-Object System.Net.WebProxy($proxy)">>,
            Sentinel >>)

\* the test of the toggle program (line 97) in the place of line 359
IsMarkerLine_Contains(line) == Contains(line, Sentinel)

\* an exact comparison in the place of line 359
IsMarkerLine_Equals(line) == line = Sentinel

\* line 359: the test that makes a line a marker line
IsMarkerLine(line) == HasPrefix(line, Sentinel)

\* lines 356-368 without the toggle of line 360
RECURSIVE FilterBlock_NoToggle(_, _)
FilterBlock_NoToggle(lines, inBlock) ==
    IF lines = << >> THEN << >>
    ELSE IF IsMarkerLine(Head(lines))
         THEN FilterBlock_NoToggle(Tail(lines), inBlock)
         ELSE <<TrimRightCR(Head(lines))>> \o FilterBlock_NoToggle(Tail(lines), inBlock)

\* lines 356-368 with a block that never closes: every line after the first
\* marker line is dropped
RECURSIVE FilterBlock_Sticky(_, _)
FilterBlock_Sticky(lines, inBlock) ==
    IF lines = << >> THEN << >>
    ELSE IF inBlock \/ IsMarkerLine(Head(lines))
         THEN FilterBlock_Sticky(Tail(lines), TRUE)
         ELSE <<TrimRightCR(Head(lines))>> \o FilterBlock_Sticky(Tail(lines), FALSE)

\* lines 356-368: the lines outside the blocks, carriage returns trimmed
RECURSIVE FilterBlock(_, _)
FilterBlock(lines, inBlock) ==
    IF lines = << >> THEN << >>
    ELSE IF IsMarkerLine(Head(lines))
         THEN FilterBlock(Tail(lines), ~inBlock)
         ELSE IF ~inBlock
              THEN <<TrimRightCR(Head(lines))>> \o FilterBlock(Tail(lines), inBlock)
              ELSE FilterBlock(Tail(lines), inBlock)

\* line 377 without the test of the last line
NeedsSeparator_NoEmptyTest(newLines) == Len(newLines) > 0

\* line 377: whether a separating empty line is added before the block
NeedsSeparator(newLines) ==
    Len(newLines) > 0 /\ newLines[Len(newLines)] # << >>

\* lines 352-384: the new content computed from the content read
NewProfileContent(fileContent, proxyServer, enable) ==
    LET lines    == Split(fileContent)
        newLines == FilterBlock(lines, FALSE)
        withSep  == IF NeedsSeparator(newLines)
                    THEN Append(newLines, << >>)
                    ELSE newLines
    IN  IF enable
        THEN Join(Append(withSep, proxyBlock(proxyServer)))
        ELSE Join(newLines)

\* the outcomes of the file primitives of one call
FileIO == {"ok", "create_fail", "read_fail", "write_fail"}

\* updatePowerShellProfile (lines 334-391) on file f: the file it leaves and
\* whether it returned an error.  A failing primitive has no effect.
updatePowerShellProfile(f, proxyServer, enable, io) ==
    IF ~f.exists /\ io = "create_fail"
    THEN [file |-> f, err |-> TRUE]
    ELSE LET g == IF f.exists THEN f ELSE File(<< >>)
         IN  IF io \in {"read_fail", "write_fail"}
             THEN [file |-> g, err |-> TRUE]
             ELSE [file |-> File(NewProfileContent(g.data, proxyServer, enable)),
                   err  |-> FALSE]

-----------------------------------------------------------------------------
(* Values the histories and the pinned variables take *)

NoCall == [op |-> "none", server |-> << >>, enable |-> FALSE, io |-> "ok"]
Call(op, server, enable, io) ==
    [op |-> op, server |-> server, enable |-> enable, io |-> io]
NoRun == [program |-> "none", pc |-> "menu", n |-> 0]

\* before' after a successful call on file f: the last two contents
Remember(f) == IF before = << >> THEN <<f>> ELSE <<f, before[1]>>

\* all sequences over S of length at most n
SeqUpTo(S, n) == UNION {[1..k -> S] : k \in 0..n}

\* line 153, 627: fmt.Sprintf("%s:10808", gateway)
Endpoint(gateway) == <<gateway, ":10808">>

\* default gateways of the machine (getDefaultGateway, lines 266-282)
Gateways == {"10.0.0.1", "10.0.0.2"}

\* the servers the interactive program is given (lines 621-642)
Servers == {Endpoint(g) : g \in Gateways}

-----------------------------------------------------------------------------
(* Specification SpecProfile: calls of updatePowerShellProfile (334-391)   *)
(* on every initial profile of at most MaxLines lines                      *)

\* the lines an initial profile is made of: empty, ordinary, ordinary with a
\* carriage return, a marker, a marker with a carriage return, a line that
\* holds the marker text but does not start with it
ProfileLines ==
    { << >>, <<"x">>, <<"x", CR>>, Sentinel, Sentinel \o <<CR>>,
      <<"x">> \o Sentinel }

InitialProfiles ==
    {NoFile} \cup {File(Join(ls)) : ls \in SeqUpTo(ProfileLines, MaxLines)}

InitProfile ==
    /\ profile \in InitialProfiles
    /\ orig = profile
    /\ before = << >>
    /\ last = NoCall
    /\ prev = NoCall
    /\ ProxyServer = << >>
    /\ ProxyEnable = 0
    /\ settings = NoFile
    /\ npmrc = NoFile
    /\ envInput = << >>
    /\ selectedEnvs = -1
    /\ run = NoRun

\* one call updatePowerShellProfile(proxyServer, enable)
ProfileCall(proxyServer, enable, io) ==
    LET r == updatePowerShellProfile(profile, proxyServer, enable, io)
    IN  /\ profile' = r.file
        /\ IF r.err
           THEN UNCHANGED <<before, last, prev>>
           ELSE /\ before' = Remember(profile)
                /\ last' = Call("profile", proxyServer, enable, "ok")
                /\ prev' = last
        /\ UNCHANGED <<ProxyServer, ProxyEnable, settings, npmrc, orig,
                       envInput, selectedEnvs, run>>

\* line 668 -> 510: updatePowerShellProfile(proxyServer, true)
EnableProfile == \E s \in Servers, io \in FileIO : ProfileCall(s, TRUE, io)

\* line 695 -> 510: updatePowerShellProfile("", false)
DisableProfile == \E io \in FileIO : ProfileCall(<< >>, FALSE, io)

NextProfile == EnableProfile \/ DisableProfile

SpecProfile == InitProfile /\ [][NextProfile]_vars

-----------------------------------------------------------------------------
(* Properties of the PowerShell profile *)

\* a sentinel line: a line that starts with "# Proxy Setting"
IsSentinelLine(line) == Len(line) >= 1 /\ line[1] = "# Proxy Setting"

MarkerCount(lines) ==
    Cardinality({i \in DOMAIN lines : IsSentinelLine(lines[i])})

MarkersBefore(lines, i) ==
    Cardinality({j \in 1..(i - 1) : IsSentinelLine(lines[j])})

\* the elements of lines at the indices in keep, in order
RECURSIVE Select(_, _, _)
Select(lines, keep, i) ==
    IF i > Len(lines) THEN << >>
    ELSE IF i \in keep THEN <<lines[i]>> \o Select(lines, keep, i + 1)
    ELSE Select(lines, keep, i + 1)

\* whether sub is a subsequence of lines (same order, gaps allowed)
RECURSIVE IsSubsequence(_, _)
IsSubsequence(sub, lines) ==
    IF sub = << >> THEN TRUE
    ELSE IF lines = << >> THEN FALSE
    ELSE IF Head(sub) = Head(lines)
         THEN IsSubsequence(Tail(sub), Tail(lines))
         ELSE IsSubsequence(sub, Tail(lines))

StripAll(lines) == [i \in DOMAIN lines |-> TrimRightCR(lines[i])]

\* the lines of the block written for server s
BlockLines(s) == Split(proxyBlock(s))

\* lines ends with the lines of tail
EndsWith(lines, tail) ==
    /\ Len(lines) >= Len(tail)
    /\ SubSeq(lines, Len(lines) - Len(tail) + 1, Len(lines)) = tail

\* C1: two successful calls updatePowerShellProfile(s, true) in a row: the
\* second leaves the file byte-identical to what the first left.
C1_Idempotent ==
    (/\ last.op = "profile" /\ last.enable
     /\ prev = last)
    => profile = before[1]

\* C1 happens: enabled twice in a row on a profile that held markers and a
\* carriage return
C1_Witness ==
    /\ last.op = "profile" /\ last.enable /\ prev = last
    /\ MarkerCount(Split(orig.data)) >= 3
    /\ Contains(orig.data, <<"x", CR>>)
    /\ profile = before[1]

\* the original lines of a profile without marker lines
NoMarker(data) == MarkerCount(Split(data)) = 0

\* C2: enable then disable on a content C without marker line: the result holds
\* no marker line and no line of the block, and is C with its carriage
\* returns trimmed, or that with one empty line more at the end.
C2_RoundTrip ==
    (/\ last.op = "profile" /\ ~last.enable
     /\ prev.op = "profile" /\ prev.enable
     /\ NoMarker(before[2].data))
    => LET C     == StripAll(Split(before[2].data))
           lines == Split(profile.data)
       IN  /\ lines \in {C, Append(C, << >>)}
           /\ MarkerCount(lines) = 0
           /\ \A i \in DOMAIN lines :
                  \A j \in 2..5 : lines[i] # BlockLines(prev.server)[j]

\* C2 happens, with a content that did not end in an empty line, so that the
\* separator line stays behind
C2_Witness ==
    /\ last.op = "profile" /\ ~last.enable
    /\ prev.op = "profile" /\ prev.enable
    /\ NoMarker(before[2].data)
    /\ before[2].data = <<"x", CR, LF, "x">> \o Sentinel
    /\ profile.data = <<"x", LF, "x">> \o Sentinel \o <<LF>>

\* the indices of the lines the claim C3 calls outside the managed block: not
\* a marker line and not between a marker pair
OutsidePairs(lines) ==
    {i \in DOMAIN lines :
        /\ ~IsSentinelLine(lines[i])
        /\ ~(/\ MarkersBefore(lines, i) % 2 = 1
             /\ \E k \in (i + 1)..Len(lines) : IsSentinelLine(lines[k]))}

\* the same, a line after an unpaired last marker counting as inside
OutsideBlocks(lines) ==
    {i \in DOMAIN lines :
        /\ ~IsSentinelLine(lines[i])
        /\ MarkersBefore(lines, i) % 2 = 0}

Survive(keep) ==
    LET lines == Split(orig.data)
    IN  IsSubsequence(StripAll(Select(lines, keep, 1)), Split(profile.data))

\* C3 as stated: after any sequence of calls every original line that is not
\* a marker line and not between a marker pair is still there, in order,
\* trailing carriage returns trimmed.
C3_NonInterference_Stated ==
    last.op = "profile" => Survive(OutsidePairs(Split(orig.data)))

\* C3 as amended: the same for every original line that is not a marker line,
\* not between a marker pair and not after an unpaired last marker.
C3_NonInterference ==
    last.op = "profile" => Survive(OutsideBlocks(Split(orig.data)))

\* C3 happens: an original profile with lines before, inside and after a
\* block, after an enable and a disable
C3_Witness ==
    /\ last.op = "profile" /\ prev.op = "profile" /\ prev.enable # last.enable
    /\ Split(orig.data) = <<<<"x", CR>>, Sentinel, <<"x">>, Sentinel \o <<CR>>>>
    /\ Survive(OutsideBlocks(Split(orig.data)))
    /\ Cardinality(OutsideBlocks(Split(orig.data))) >= 1

\* C4: after a successful call the file holds, after enable, exactly two
\* marker lines, the first and the last of the block for the server given,
\* which ends the file; after disable no marker line.
C4_SingleBlock ==
    last.op = "profile" =>
        LET lines == Split(profile.data)
        IN  IF last.enable
            THEN /\ MarkerCount(lines) = 2
                 /\ EndsWith(lines, BlockLines(last.server))
            ELSE MarkerCount(lines) = 0

\* C4 happens: an enable on a profile that held two blocks, and one on a
\* profile with an unpaired marker
C4_Witness ==
    /\ last.op = "profile" /\ last.enable
    /\ MarkerCount(Split(orig.data)) \in {3, 4}
    /\ MarkerCount(Split(profile.data)) = 2

\* the index of the first sentinel line of lines
FirstMarker(lines) ==
    CHOOSE i \in DOMAIN lines :
        IsSentinelLine(lines[i]) /\ MarkersBefore(lines, i) = 0

\* the last successful call read a profile with an odd number of sentinel
\* lines
OddSentinels ==
    /\ last.op = "profile"
    /\ MarkerCount(Split(before[1].data)) % 2 = 1

\* the profile is the lines kept, followed after enable by the new block,
\* with or without an empty line before it
ProfileIs(kept) ==
    IF last.enable
    THEN profile.data \in
             { Join(Append(kept, proxyBlock(last.server))),
               Join(kept \o << << >>, proxyBlock(last.server) >>) }
    ELSE profile.data = Join(kept)

\* C12 as stated: a call on a profile with an odd number of sentinel lines
\* keeps the lines before the first sentinel line only (carriage returns
\* trimmed), plus the new block on enable.
C12_OddSentinels_Stated ==
    OddSentinels =>
        LET in == Split(before[1].data)
        IN  ProfileIs(StripAll(SubSeq(in, 1, FirstMarker(in) - 1)))

\* C12 as amended: such a call treats everything after the last sentinel
\* line as inside the block: it keeps the lines before the first sentinel
\* line and those between the 2nd and 3rd, 4th and 5th, ... sentinel lines,
\* and no line after the last one; with one sentinel line that is the lines
\* before it only.
C12_OddSentinels ==
    OddSentinels =>
        LET in == Split(before[1].data)
        IN  /\ ProfileIs(StripAll(Select(in, OutsideBlocks(in), 1)))
            /\ \A i \in OutsideBlocks(in) :
                   \E k \in (i + 1)..Len(in) : IsSentinelLine(in[k])
            /\ MarkerCount(in) = 1 =>
                   ProfileIs(StripAll(SubSeq(in, 1, FirstMarker(in) - 1)))

\* C12 happens: enable on a profile with three sentinel lines and a line
\* between the second and the third, which stays
C12_Witness ==
    /\ OddSentinels /\ last.enable
    /\ Split(before[1].data)
           = << Sentinel, Sentinel \o <<CR>>, <<"x", CR>>, Sentinel >>
    /\ profile.data = Join(<< <<"x">>, << >>, proxyBlock(last.server) >>)

\* C12 happens with one sentinel line: the line after it is gone
C12_WitnessOne ==
    /\ OddSentinels /\ ~last.enable
    /\ Split(before[1].data) = << <<"x", CR>>, Sentinel, <<"x">>, << >> >>
    /\ profile.data = <<"x">>

-----------------------------------------------------------------------------
(* The environment selection (lines 213-219, 442-464) *)

ENV_SYSTEM == 1
ENV_POWERSHELL == 2
ENV_VSCODE == 4
ENV_NPM == 8

\* whether mask has the bit of flag (envMask&flag != 0), flag a power of two
HasFlag(mask, flag) == (mask \div flag) % 2 = 1

\* += in the place of |=
BitOr_Add(mask, flag) == mask + flag

\* mask | flag, flag a power of two
BitOr(mask, flag) == IF HasFlag(mask, flag) THEN mask ELSE mask + flag

\* strings.ToLower on the characters of the model
ToLower(s) == [i \in DOMAIN s |-> IF s[i] = "A" THEN "a" ELSE s[i]]

\* lines 449-461: the loop over the characters
RECURSIVE ScanSelection(_, _)
ScanSelection(input, selected) ==
    IF input = << >> THEN selected
    ELSE LET char == Head(input)
             next == CASE char = "1" -> BitOr(selected, ENV_SYSTEM)
                       [] char = "2" -> BitOr(selected, ENV_POWERSHELL)
                       [] char = "3" -> BitOr(selected, ENV_VSCODE)
                       [] char = "4" -> BitOr(selected, ENV_NPM)
                       [] OTHER      -> selected
         IN  ScanSelection(Tail(input), next)

\* parseEnvironmentSelection (lines 443-464)
parseEnvironmentSelection(input) ==
    LET trimmed == TrimSpace(input)
    IN  IF trimmed = << >> \/ ToLower(trimmed) = <<"a">>
        THEN BitOr(BitOr(BitOr(ENV_SYSTEM, ENV_POWERSHELL), ENV_VSCODE), ENV_NPM)
        ELSE ScanSelection(trimmed, 0)

-----------------------------------------------------------------------------
(* Specification SpecSelector: parseEnvironmentSelection on every input of *)
(* at most MaxInput characters                                             *)

SelectionChars == {"1", "2", "3", "4", "A", "a", "x", SP}

InitSelector ==
    /\ envInput \in SeqUpTo(SelectionChars, MaxInput)
    /\ selectedEnvs = -1
    /\ profile = NoFile
    /\ orig = NoFile
    /\ before = << >>
    /\ last = NoCall
    /\ prev = NoCall
    /\ ProxyServer = << >>
    /\ ProxyEnable = 0
    /\ settings = NoFile
    /\ npmrc = NoFile
    /\ run = NoRun

\* line 658, 685: selectedEnvs := parseEnvironmentSelection(envInput)
ParseSelection ==
    /\ selectedEnvs = -1
    /\ selectedEnvs' = parseEnvironmentSelection(envInput)
    /\ UNCHANGED <<ProxyServer, ProxyEnable, profile, settings, npmrc, orig,
                   before, last, prev, envInput, run>>

NextSelector == ParseSelection

SpecSelector == InitSelector /\ [][NextSelector]_vars

-----------------------------------------------------------------------------
(* Properties of the environment selection *)

\* the surfaces a mask selects, as a set
Surfaces(mask) ==
    {f \in {"SYSTEM", "SHELL_PROFILE", "EDITOR", "PACKAGE_MANAGER"} :
        \/ f = "SYSTEM"          /\ mask % 2 = 1
        \/ f = "SHELL_PROFILE"   /\ (mask \div 2) % 2 = 1
        \/ f = "EDITOR"          /\ (mask \div 4) % 2 = 1
        \/ f = "PACKAGE_MANAGER" /\ (mask \div 8) % 2 = 1}

AllSurfaces == {"SYSTEM", "SHELL_PROFILE", "EDITOR", "PACKAGE_MANAGER"}

\* the surfaces of the digits that occur in input
DigitSurfaces(input) ==
    {f \in AllSurfaces :
        \E i \in DOMAIN input :
            \/ input[i] = "1" /\ f = "SYSTEM"
            \/ input[i] = "2" /\ f = "SHELL_PROFILE"
            \/ input[i] = "3" /\ f = "EDITOR"
            \/ input[i] = "4" /\ f = "PACKAGE_MANAGER"}

-----------------------------------------------------------------------------
(* The registry (lines 28-67, 285-330, 734-773) *)

\* the outcomes of the registry primitives of one setProxySettings call
RegistryIO == {"ok", "open_fail", "string_fail", "dword_fail"}

\* setProxySettings without the SetDWordValue of line 303: ProxyEnable keeps
\* its value
setProxySettings_ServerOnly(store, proxyServer, enable, io) ==
    CASE io \in {"open_fail", "string_fail"} -> [store |-> store, err |-> TRUE]
      [] OTHER -> [store |-> [server |-> proxyServer, enable |-> store.enable],
                   err |-> io = "dword_fail"]

\* setProxySettings(proxyServer, enable) on the store [server, enable]: the
\* store it leaves and whether it returned an error.  ProxyServer is written
\* first (line 298), ProxyEnable second (line 303).
setProxySettings(store, proxyServer, enable, io) ==
    CASE io = "open_fail"   -> [store |-> store, err |-> TRUE]
      [] io = "string_fail" -> [store |-> store, err |-> TRUE]
      [] io = "dword_fail"  -> [store |-> [server |-> proxyServer,
                                           enable |-> store.enable],
                                err |-> TRUE]
      [] OTHER              -> [store |-> [server |-> proxyServer,
                                           enable |-> enable],
                                err |-> FALSE]

\* the store as the variables hold it
Store == [server |-> ProxyServer, enable |-> ProxyEnable]

-----------------------------------------------------------------------------
(* The PowerShell profile of the toggle program (lines 69-144) *)

\* lines 89-92: the block, without "http://"
toggleProxyBlock(proxyServer) ==
    Join(<< Sentinel,
            <<"$proxy = \"">> \o proxyServer \o <<"\"">>,
            <<"$env:HTTP_PROXY = $proxy">>,
            <<"$env:HTTPS_PROXY = $proxy">>,
            <<"[System.Net.WebRequest]::DefaultWebProxy = New-Object System.Net.WebProxy($proxy)">>,
            Sentinel >>)

\* lines 95-101: whether a line holds the marker text
toggleBlockExists(lines) ==
    \E i \in DOMAIN lines : Contains(lines[i], Sentinel)

\* lines 109-121 (enable, the block put where a block starts) and lines
\* 125-134 (disable)
RECURSIVE toggleFilter(_, _, _, _)
toggleFilter(lines, inBlock, enable, block) ==
    IF lines = << >> THEN << >>
    ELSE IF Contains(Head(lines), Sentinel)
         THEN (IF enable /\ ~inBlock THEN <<block>> ELSE << >>)
              \o toggleFilter(Tail(lines), ~inBlock, enable, block)
         ELSE IF ~inBlock
              THEN <<Head(lines)>> \o toggleFilter(Tail(lines), inBlock, enable, block)
              ELSE toggleFilter(Tail(lines), inBlock, enable, block)

\* lines 85-137: the new content computed from the content read
toggleNewProfileContent(fileContent, proxyServer, enable) ==
    LET lines == Split(fileContent)
        block == toggleProxyBlock(proxyServer)
    IN  IF enable /\ ~toggleBlockExists(lines)
        THEN Join(Append(lines, <<LF>> \o block))
        ELSE Join(toggleFilter(lines, FALSE, enable, block))

\* updatePowerShellProfile of the toggle program (lines 69-144)
toggleUpdatePowerShellProfile(f, proxyServer, enable, io) ==
    IF ~f.exists /\ io = "create_fail"
    THEN [file |-> f, err |-> TRUE]
    ELSE LET g == IF f.exists THEN f ELSE File(<< >>)
         IN  IF io \in {"read_fail", "write_fail"}
             THEN [file |-> g, err |-> TRUE]
             ELSE [file |-> File(toggleNewProfileContent(g.data, proxyServer, enable)),
                   err  |-> FALSE]

-----------------------------------------------------------------------------
(* The toggle programs (lines 146-198 and 775-814) *)

\* lines 160-195, 789-812: the branch taken
ToggleAction(currentProxy, proxyServer) ==
    IF currentProxy # << >>
    THEN IF currentProxy = proxyServer THEN "Disable" ELSE "Update"
    ELSE "Enable"

\* the first argument of setProxySettings when the Disable branch passes the
\* endpoint instead of "" (line 163)
ToggleServer_KeepEndpoint(action, proxyServer) == proxyServer

\* the arguments of setProxySettings in the branch (lines 163, 174, 186)
ToggleServer(action, proxyServer) ==
    IF action = "Disable" THEN << >> ELSE proxyServer

ToggleEnable(action) == IF action = "Disable" THEN 0 ELSE 1

\* the record of a run that ended before the branch
EarlyExit(program, gateway) ==
    [program |-> program, pc |-> "exit", gateway |-> gateway, exit |-> 1,
     action |-> "none",
     wasServer |-> ProxyServer, wasEnable |-> ProxyEnable,
     setCalled |-> FALSE, setErr |-> FALSE,
     profileCalled |-> FALSE, profileErr |-> FALSE]

\* the record of a run that took a branch
Ran(program, gateway, action, setErr, profileCalled, profileErr) ==
    [program |-> program, pc |-> "exit", gateway |-> gateway,
     exit |-> IF setErr \/ profileErr THEN 1 ELSE 0, action |-> action,
     wasServer |-> ProxyServer, wasEnable |-> ProxyEnable,
     setCalled |-> TRUE, setErr |-> setErr,
     profileCalled |-> profileCalled, profileErr |-> profileErr]

ToggleFrame == UNCHANGED <<settings, npmrc, orig, before, last, prev,
                           envInput, selectedEnvs>>

\* lines 147-151, 776-780: getDefaultGateway fails, exit status 1
ToggleGatewayFails(program) ==
    /\ run' = EarlyExit(program, "unavailable")
    /\ UNCHANGED <<ProxyServer, ProxyEnable, profile>>
    /\ ToggleFrame

\* lines 154-158, 783-787: getCurrentProxy fails, exit status 1
ToggleReadFails(program) ==
    \E gateway \in Gateways :
        /\ run' = EarlyExit(program, gateway)
        /\ UNCHANGED <<ProxyServer, ProxyEnable, profile>>
        /\ ToggleFrame

\* main of the toggle program with the profile (lines 146-198)
ToggleProfileRun ==
    \E gateway \in Gateways, rio \in RegistryIO, fio \in FileIO :
        LET proxyServer == Endpoint(gateway)
            action      == ToggleAction(ProxyServer, proxyServer)
            s           == setProxySettings(Store, ToggleServer(action, proxyServer),
                                            ToggleEnable(action), rio)
            p           == toggleUpdatePowerShellProfile(
                               profile, ToggleServer(action, proxyServer),
                               action # "Disable", fio)
        IN  /\ ProxyServer' = s.store.server
            /\ ProxyEnable' = s.store.enable
            /\ IF s.err
               THEN \* os.Exit(1) at line 165, 176 or 188
                    /\ UNCHANGED profile
                    /\ run' = Ran("toggle", gateway, action, TRUE, FALSE, FALSE)
               ELSE /\ profile' = p.file
                    /\ run' = Ran("toggle", gateway, action, FALSE, TRUE, p.err)
            /\ Len(profile'.data) <= MaxProfileSize
            /\ ToggleFrame

\* main of the registry-only toggle program (lines 775-814)
ToggleRegistryRun ==
    \E gateway \in Gateways, rio \in RegistryIO :
        LET proxyServer == Endpoint(gateway)
            action      == ToggleAction(ProxyServer, proxyServer)
            s           == setProxySettings(Store, ToggleServer(action, proxyServer),
                                            ToggleEnable(action), rio)
        IN  /\ ProxyServer' = s.store.server
            /\ ProxyEnable' = s.store.enable
            /\ run' = Ran("toggle_registry", gateway, action, s.err, FALSE, FALSE)
            /\ UNCHANGED profile
            /\ ToggleFrame

-----------------------------------------------------------------------------
(* Specification SpecToggle: runs of the two toggle programs from every    *)
(* state of the store                                                      *)

\* a server that is no gateway endpoint
CustomServer == <<"192.168.1.1:8080">>

\* the profiles a toggle run may find
ToggleProfiles ==
    {NoFile} \cup {File(Join(ls)) : ls \in SeqUpTo(ProfileLines, 1)}
             \cup {File(Join(<< <<"x">>, toggleProxyBlock(Endpoint(g)) >>)) :
                      g \in Gateways}

InitToggle ==
    /\ ProxyServer \in {<< >>, CustomServer} \cup Servers
    /\ ProxyEnable \in {0, 1}
    /\ profile \in ToggleProfiles
    /\ orig = NoFile
    /\ before = << >>
    /\ last = NoCall
    /\ prev = NoCall
    /\ settings = NoFile
    /\ npmrc = NoFile
    /\ envInput = << >>
    /\ selectedEnvs = -1
    /\ run = NoRun

NextToggle ==
    \/ ToggleGatewayFails("toggle")
    \/ ToggleGatewayFails("toggle_registry")
    \/ ToggleReadFails("toggle")
    \/ ToggleReadFails("toggle_registry")
    \/ ToggleProfileRun
    \/ ToggleRegistryRun

SpecToggle == InitToggle /\ [][NextToggle]_vars

-----------------------------------------------------------------------------
(* Properties of the toggle programs *)

\* a run that took a branch and whose setters all succeeded
ToggleDone == run.program \in {"toggle", "toggle_registry"} /\ run.exit = 0

\* C6: the store a toggle run leaves, by the state it found: enabled with
\* the endpoint g:10808, Disable (server cleared, flag 0); enabled with
\* another endpoint, Update (server g:10808, flag 1); disabled, Enable
\* (server g:10808, flag 1).  Update and Enable leave the same store.
C6_TogglePolicy ==
    ToggleDone =>
        LET g == Endpoint(run.gateway)
        IN  IF run.wasEnable = 1 /\ run.wasServer = g
            THEN ProxyServer = << >> /\ ProxyEnable = 0
            ELSE ProxyServer = g /\ ProxyEnable = 1

\* C8: in the toggle program with the profile, a failing setProxySettings
\* does not keep the profile update from being attempted.
C8_NoFatalFailure ==
    (run.program = "toggle" /\ run.setCalled /\ run.setErr) => run.profileCalled

-----------------------------------------------------------------------------
(* JSON (encoding/json as setVSCodeProxy uses it, lines 233-260)           *)
(*                                                                         *)
(* A document is a string of the tokens { } : , " null, the scalars of     *)
(* JsonScalars, white space and the characters of strings.  A Go value is  *)
(* [t, v]: a string with its text, a scalar with its token, or nil.  The   *)
(* Go map is [isNil, m]: m a function from keys (strings) to values.       *)

QUOTE == "\""

\* the tokens that are a value by themselves: a number, a boolean, an array
JsonScalars == {"14", "true", "[]"}

JsonNull == [t |-> "nil", v |-> << >>]
JsonString(s) == [t |-> "string", v |-> s]
JsonScalar(tok) == [t |-> "scalar", v |-> <<tok>>]

EmptyMap == [isNil |-> FALSE, m |-> << >>]
NilMap == [isNil |-> TRUE, m |-> << >>]

\* m with key k set to v (Go: m[k] = v)
MapSet(m, k, v) == [x \in DOMAIN m \cup {k} |-> IF x = k THEN v ELSE m[x]]

\* m without key k (Go: delete(m, k))
MapDelete(m, k) == [x \in DOMAIN m \ {k} |-> m[x]]

\* the first index at or after i that holds no white space
RECURSIVE SkipWS(_, _)
SkipWS(d, i) ==
    IF i <= Len(d) /\ IsSpace(d[i]) THEN SkipWS(d, i + 1) ELSE i

\* the index of the first quote at or after i, 0 when there is none
RECURSIVE IndexQuote(_, _)
IndexQuote(d, i) ==
    IF i > Len(d) THEN 0
    ELSE IF d[i] = QUOTE THEN i
    ELSE IndexQuote(d, i + 1)

ParseFail == [ok |-> FALSE, val |-> JsonNull, next |-> 0]

\* a string at i: the text between two quotes
ParseString(d, i) ==
    IF i <= Len(d) /\ d[i] = QUOTE /\ IndexQuote(d, i + 1) # 0
    THEN [ok |-> TRUE, val |-> JsonString(SubSeq(d, i + 1, IndexQuote(d, i + 1) - 1)),
          next |-> IndexQuote(d, i + 1) + 1]
    ELSE ParseFail

\* a member value at i: a string, a scalar or null
ParseValue(d, i) ==
    IF i > Len(d) THEN ParseFail
    ELSE IF d[i] = QUOTE THEN ParseString(d, i)
    ELSE IF d[i] \in JsonScalars
         THEN [ok |-> TRUE, val |-> JsonScalar(d[i]), next |-> i + 1]
    ELSE IF d[i] = "null"
         THEN [ok |-> TRUE, val |-> JsonNull, next |-> i + 1]
    ELSE ParseFail

MembersFail == [ok |-> FALSE, m |-> << >>, next |-> 0]

\* the members of an object from i on, i after "{" or ","; m the members so
\* far (a later member with the same key replaces the earlier one)
RECURSIVE ParseMembers(_, _, _)
ParseMembers(d, i, m) ==
    Bind(ParseString(d, SkipWS(d, i)), LAMBDA k :
      IF ~k.ok THEN MembersFail
      ELSE Bind(SkipWS(d, k.next), LAMBDA c :
        IF c > Len(d) \/ d[c] # ":" THEN MembersFail
        ELSE Bind(ParseValue(d, SkipWS(d, c + 1)), LAMBDA v :
          IF ~v.ok THEN MembersFail
          ELSE Bind(SkipWS(d, v.next), LAMBDA e :
            IF e > Len(d) THEN MembersFail
            ELSE Bind(MapSet(m, k.val.v, v.val), LAMBDA m2 :
              IF d[e] = "}" THEN [ok |-> TRUE, m |-> m2, next |-> e + 1]
              ELSE IF d[e] = "," THEN ParseMembers(d, e + 1, m2)
              ELSE MembersFail)))))

\* an object at i
ParseObject(d, i) ==
    LET j == SkipWS(d, i + 1)
    IN  IF j <= Len(d) /\ d[j] = "}"
        THEN [ok |-> TRUE, m |-> << >>, next |-> j + 1]
        ELSE ParseMembers(d, i + 1, << >>)

\* the document d as json.Unmarshal sees it: "object" with its members,
\* "null", "other" (a valid document that is no object) or "invalid"
ParseDocument(d) ==
    LET i == SkipWS(d, 1)
    IN  IF i > Len(d) THEN [kind |-> "invalid", m |-> << >>]
        ELSE IF d[i] = "{"
             THEN LET o == ParseObject(d, i)
                  IN  IF o.ok /\ SkipWS(d, o.next) > Len(d)
                      THEN [kind |-> "object", m |-> o.m]
                      ELSE [kind |-> "invalid", m |-> << >>]
        ELSE LET v == ParseValue(d, i)
             IN  IF v.ok /\ SkipWS(d, v.next) > Len(d)
                 THEN [kind |-> IF v.val = JsonNull THEN "null" ELSE "other",
                       m |-> << >>]
                 ELSE [kind |-> "invalid", m |-> << >>]

\* json.Unmarshal(data, &settings), settings an empty map, error dropped
\* (line 237): an object fills the map, null makes it nil, anything else
\* is an error that leaves it empty
Unmarshal(data) ==
    LET p == ParseDocument(data)
    IN  CASE p.kind = "object" -> [isNil |-> FALSE, m |-> p.m]
          [] p.kind = "null"   -> NilMap
          [] OTHER             -> EmptyMap

\* the keys of the model in the order encoding/json writes them (sorted)
KeyOrder == << <<"editor.fontSize">>, <<"http.proxy">>, <<"window.zoomLevel">> >>

\* the text of a value
EncodeValue(v) ==
    CASE v.t = "string" -> <<QUOTE>> \o v.v \o <<QUOTE>>
      [] v.t = "scalar" -> v.v
      [] OTHER          -> <<"null">>

\* the members of m with the keys KeyOrder[i..], one per line, indented
RECURSIVE EncodeMembers(_, _, _)
EncodeMembers(m, i, first) ==
    IF i > Len(KeyOrder) THEN << >>
    ELSE IF KeyOrder[i] \in DOMAIN m
         THEN (IF first THEN << >> ELSE <<",">>)
              \o <<LF, SP, SP, QUOTE>> \o KeyOrder[i] \o <<QUOTE, ":", SP>>
              \o EncodeValue(m[KeyOrder[i]])
              \o EncodeMembers(m, i + 1, FALSE)
         ELSE EncodeMembers(m, i + 1, first)

\* encoder.SetIndent("", "  "); encoder.Encode(settings) (lines 256-258)
Encode(smap) ==
    IF smap.isNil THEN <<"null", LF>>
    ELSE IF DOMAIN smap.m = {} THEN <<"{", "}", LF>>
    ELSE <<"{">> \o EncodeMembers(smap.m, 1, TRUE) \o <<LF, "}", LF>>

-----------------------------------------------------------------------------
(* setVSCodeProxy (lines 229-263) *)

HttpProxyKey == <<"http.proxy">>

\* the outcomes of the file primitives of one setVSCodeProxy call
SettingsIO == {"ok", "read_fail", "open_fail", "write_fail"}

\* lines 233-239 with the file never read
loadSettings_Empty(f, io) == EmptyMap

\* lines 233-239: the map the call starts from
loadSettings(f, io) ==
    IF f.exists /\ io # "read_fail" /\ Len(f.data) > 0
    THEN Unmarshal(f.data)
    ELSE EmptyMap

\* lines 241-247: the key set or deleted; a nil map stays nil on delete
mergeProxyKey(s, proxyServer, enable) ==
    IF enable
    THEN [isNil |-> FALSE,
          m |-> MapSet(s.m, HttpProxyKey, JsonString(<<"http://">> \o proxyServer))]
    ELSE [isNil |-> s.isNil, m |-> MapDelete(s.m, HttpProxyKey)]

\* setVSCodeProxy(proxyServer, enable) on file f: the file it leaves, whether
\* it returned an error, and whether it panicked: line 242 assigns to an
\* entry of a nil map when the document was null
setVSCodeProxy(f, proxyServer, enable, io) ==
    LET s == loadSettings(f, io)
    IN  IF enable /\ s.isNil
        THEN [file |-> f, err |-> FALSE, panic |-> TRUE]
        ELSE IF io = "open_fail"
             THEN [file |-> f, err |-> TRUE, panic |-> FALSE]
        ELSE IF io = "write_fail"
             THEN [file |-> File(<< >>), err |-> TRUE, panic |-> FALSE]
        ELSE [file |-> File(Encode(mergeProxyKey(s, proxyServer, enable))),
              err |-> FALSE, panic |-> FALSE]

-----------------------------------------------------------------------------
(* Specification SpecSettings: calls of setVSCodeProxy on every initial    *)
(* settings.json of the model                                              *)

\* the members an initial object is made of: a key and the text of a value
SettingsKeys == {KeyOrder[i] : i \in DOMAIN KeyOrder}

SettingsValues ==
    { <<"14">>, <<"null">>,
      <<QUOTE, "http://">> \o Endpoint("10.0.0.2") \o <<QUOTE>> }

Member(k, v) == <<QUOTE>> \o k \o <<QUOTE, ":">> \o v

\* members joined by ","
RECURSIVE JoinMembers(_)
JoinMembers(ms) ==
    IF ms = << >> THEN << >>
    ELSE IF Len(ms) = 1 THEN ms[1]
    ELSE ms[1] \o <<",", SP>> \o JoinMembers(Tail(ms))

ObjectDocuments ==
    { <<"{">> \o JoinMembers(ms) \o <<"}">> :
        ms \in SeqUpTo({Member(k, v) : k \in SettingsKeys, v \in SettingsValues},
                       MaxMembers) }

\* a missing file, an empty file, null, documents that are no object, a
\* document cut short, and the objects
InitialSettings ==
    {NoFile, File(<< >>), File(<<"null">>), File(<<"[]">>), File(<<"14", LF>>),
     File(<<"{", QUOTE, "editor.fontSize", QUOTE, ":">>)}
    \cup {File(d) : d \in ObjectDocuments}

InitSettings ==
    /\ settings \in InitialSettings
    /\ orig = settings
    /\ before = << >>
    /\ last = NoCall
    /\ prev = NoCall
    /\ profile = NoFile
    /\ npmrc = NoFile
    /\ ProxyServer = << >>
    /\ ProxyEnable = 0
    /\ envInput = << >>
    /\ selectedEnvs = -1
    /\ run = NoRun

\* one call setVSCodeProxy(proxyServer, enable); a call that panics ends the
\* program and leaves the file as it was
SettingsCall(proxyServer, enable, io) ==
    LET r == setVSCodeProxy(settings, proxyServer, enable, io)
    IN  /\ settings' = r.file
        /\ last' = CASE r.panic -> Call("vscode_panic", proxyServer, enable, io)
                     [] r.err   -> Call("vscode_err", proxyServer, enable, io)
                     [] OTHER   -> Call("vscode", proxyServer, enable, io)
        /\ before' = <<settings>>
        /\ UNCHANGED <<ProxyServer, ProxyEnable, profile, npmrc, orig, prev,
                       envInput, selectedEnvs, run>>

\* line 668 -> 518: setVSCodeProxy(proxyServer, true)
EnableSettings == \E s \in Servers, io \in SettingsIO : SettingsCall(s, TRUE, io)

\* line 695 -> 518: setVSCodeProxy("", false)
DisableSettings == \E io \in SettingsIO : SettingsCall(<< >>, FALSE, io)

NextSettings == EnableSettings \/ DisableSettings

SpecSettings == InitSettings /\ [][NextSettings]_vars

-----------------------------------------------------------------------------
(* Properties of setVSCodeProxy *)

-----------------------------------------------------------------------------
(* setNpmProxy (lines 394-440) *)

\* the key prefix "proxy=", one token
ProxyKey == <<"proxy=">>

\* line 416 with the line left untrimmed
IsProxyOrBlank_Untrimmed(line) == HasPrefix(line, ProxyKey) \/ line = << >>

\* lines 416-418: a line that is dropped
IsProxyOrBlank(line) ==
    LET trimmed == TrimSpace(line)
    IN  HasPrefix(trimmed, ProxyKey) \/ trimmed = << >>

\* lines 415-421: the lines kept, carriage returns trimmed
RECURSIVE KeepNpmLines(_)
KeepNpmLines(lines) ==
    IF lines = << >> THEN << >>
    ELSE IF IsProxyOrBlank(Head(lines))
         THEN KeepNpmLines(Tail(lines))
         ELSE <<TrimRightCR(Head(lines))>> \o KeepNpmLines(Tail(lines))

\* line 425: fmt.Sprintf("proxy=http://%s", proxyServer)
NpmProxyLine(proxyServer) == <<"proxy=", "http://">> \o proxyServer

\* lines 402-432: the content written; lines is nil when there is no file
NewNpmContent(f, proxyServer, enable) ==
    LET lines    == IF f.exists THEN Split(f.data) ELSE << >>
        kept     == KeepNpmLines(lines)
        newLines == IF enable THEN Append(kept, NpmProxyLine(proxyServer)) ELSE kept
    IN  IF Len(newLines) > 0 THEN Join(newLines) \o <<LF>> ELSE Join(newLines)

\* the outcomes of the primitives of one setNpmProxy call
NpmIO == {"ok", "home_fail", "read_fail", "write_fail"}

\* setNpmProxy(proxyServer, enable) on file f: the file it leaves and whether
\* it returned an error.  A failing primitive has no effect.
setNpmProxy(f, proxyServer, enable, io) ==
    IF io = "home_fail" \/ (f.exists /\ io = "read_fail") \/ io = "write_fail"
    THEN [file |-> f, err |-> TRUE]
    ELSE [file |-> File(NewNpmContent(f, proxyServer, enable)), err |-> FALSE]

-----------------------------------------------------------------------------
(* Specification SpecNpm: calls of setNpmProxy on every initial .npmrc of  *)
(* at most MaxNpmLines lines                                               *)

\* the lines an initial .npmrc is made of: empty, white space only, an
\* ordinary line, one with a carriage return, one with spaces around, a
\* proxy line, an indented proxy line with a carriage return, and a line
\* that holds "proxy=" but does not start with it
NpmLines ==
    { << >>, <<SP, CR>>, <<"x">>, <<"x", CR>>, <<SP, "x", SP>>,
      <<"proxy=", "x">>, <<SP, "proxy=", "x", CR>>, <<"x", "proxy=">> }

InitialNpmrcs ==
    {NoFile} \cup {File(Join(ls)) : ls \in SeqUpTo(NpmLines, MaxNpmLines)}

InitNpm ==
    /\ npmrc \in InitialNpmrcs
    /\ orig = npmrc
    /\ before = << >>
    /\ last = NoCall
    /\ prev = NoCall
    /\ profile = NoFile
    /\ settings = NoFile
    /\ ProxyServer = << >>
    /\ ProxyEnable = 0
    /\ envInput = << >>
    /\ selectedEnvs = -1
    /\ run = NoRun

\* one call setNpmProxy(proxyServer, enable); a call that fails changes
\* nothing
NpmCall(proxyServer, enable, io) ==
    LET r == setNpmProxy(npmrc, proxyServer, enable, io)
    IN  /\ npmrc' = r.file
        /\ IF r.err
           THEN UNCHANGED <<before, last, prev>>
           ELSE /\ before' = <<npmrc>>
                /\ last' = Call("npm", proxyServer, enable, "ok")
                /\ prev' = last
        /\ UNCHANGED <<ProxyServer, ProxyEnable, profile, settings, orig,
                       envInput, selectedEnvs, run>>

\* line 668 -> 526: setNpmProxy(proxyServer, true)
EnableNpm == \E s \in Servers, io \in NpmIO : NpmCall(s, TRUE, io)

\* line 695 -> 526: setNpmProxy("", false)
DisableNpm == \E io \in NpmIO : NpmCall(<< >>, FALSE, io)

NextNpm == EnableNpm \/ DisableNpm

SpecNpm == InitNpm /\ [][NextNpm]_vars

-----------------------------------------------------------------------------
(* Properties of setNpmProxy *)

\* a line whose trimmed form starts with "proxy="
IsProxyLine(line) ==
    \E i \in DOMAIN line :
        /\ line[i] = "proxy="
        /\ \A j \in 1..(i - 1) : line[j] \in {SP, CR, "\t"}

\* a line that holds white space only
IsBlank(line) == \A i \in DOMAIN line : line[i] \in {SP, CR, "\t"}

\* the lines of a file: the pieces between the "\n", without the empty
\* piece after a final "\n"
LinesOf(data) ==
    LET ls == Split(data)
    IN  IF ls[Len(ls)] = << >> THEN SubSeq(ls, 1, Len(ls) - 1) ELSE ls

\* the indices of the lines of the input that are neither blank nor proxy
\* lines
OtherLines(lines) ==
    {i \in DOMAIN lines : ~IsBlank(lines[i]) /\ ~IsProxyLine(lines[i])}

\* parts (1), (3), (4) of C10 and its consequence
NpmResult ==
    LET out == LinesOf(npmrc.data)
    IN  /\ \A i \in DOMAIN out :
               IsProxyLine(out[i]) =>
                   /\ last.enable
                   /\ i = Len(out)
                   /\ out[i] = <<"proxy=", "http://">> \o last.server
        /\ last.enable =>
               /\ Len(out) >= 1
               /\ out[Len(out)] = <<"proxy=", "http://">> \o last.server
        /\ \A i \in DOMAIN out : ~IsBlank(out[i])
        /\ npmrc.data # << >> => npmrc.data[Len(npmrc.data)] = LF
        /\ prev = last => npmrc = before[1]

\* C10 as stated: after setNpmProxy(s, enable) (1) no proxy line but, on
\* enable, the one final line proxy=http://s; (2) every line of the input that
\* is neither blank nor a proxy line, in order; (3) no blank line; (4) a
\* final newline when the result is not empty; a second call with the same
\* arguments changes nothing.
C10_NpmMerge_Stated ==
    last.op = "npm" =>
        /\ NpmResult
        /\ LET in == LinesOf(before[1].data)
           IN  IsSubsequence(Select(in, OtherLines(in), 1), LinesOf(npmrc.data))

\* C10 as amended: (2) every such line of the input, its trailing carriage
\* returns removed, in order.
C10_NpmMerge ==
    last.op = "npm" =>
        /\ NpmResult
        /\ LET in == LinesOf(before[1].data)
           IN  IsSubsequence(StripAll(Select(in, OtherLines(in), 1)),
                             LinesOf(npmrc.data))

\* C10 happens: an input with a blank line, two proxy lines and kept lines,
\* enabled twice with the same server
C10_Witness ==
    /\ last.op = "npm" /\ last.enable /\ prev = last
    /\ Split(orig.data) = << <<SP, "proxy=", "x", CR>>, <<SP, "x", SP>>,
                             <<"proxy=", "x">> >>
    /\ npmrc = before[1]
    /\ LinesOf(npmrc.data) = << <<SP, "x", SP>>,
                                <<"proxy=", "http://">> \o last.server >>

-----------------------------------------------------------------------------
(* applyProxySettings (lines 493-552) and the menu of the interactive      *)
(* program (lines 554-706)                                                 *)
(*                                                                         *)
(* run.pc is the place of the program: "menu" is the menu, "system", "powershell", "vscode"    *)
(* and "npm" are the four blocks of applyProxySettings (lines 497, 509,    *)
(* 517, 525), "done" is the menu after a run, "crashed" the end of the     *)
(* process after a panic.                                                  *)

\* envNames (lines 221-226), in the order of the four blocks
envNames == <<"System Registry", "PowerShell Profile", "VS Code", "npm">>

\* the flags of the four blocks
envFlags == <<ENV_SYSTEM, ENV_POWERSHELL, ENV_VSCODE, ENV_NPM>>

\* lines 494-495 at the call of applyProxySettings(proxyServer, enable, envMask)
StartApply(proxyServer, enable, envMask) ==
    [program |-> "interactive", pc |-> "system", n |-> run.n + 1,
     server |-> proxyServer,
     enable |-> enable, mask |-> envMask,
     invoked |-> <<0, 0, 0, 0>>,
     outcome |-> <<"none", "none", "none", "none">>,
     success |-> << >>, errors |-> << >>]

\* lines 502-506, 510-514, 518-522, 526-530: setter n has returned err
Recorded(n, err, pc) ==
    [run EXCEPT !.pc = pc,
                !.invoked[n] = @ + 1,
                !.outcome[n] = IF err THEN "err" ELSE "ok",
                !.success = IF err THEN @ ELSE Append(@, envNames[n]),
                !.errors = IF err THEN Append(@, envNames[n]) ELSE @]

\* setter n has panicked: the process ends
Panicked(n) ==
    [run EXCEPT !.pc = "crashed",
                !.invoked[n] = @ + 1,
                !.outcome[n] = "panic"]

\* the menu is shown: no run yet, a run ended, or the program started again
AtMenu == run.pc \in {"menu", "done", "crashed"} /\ run.n < MaxRuns

ApplyFrame == UNCHANGED <<orig, before, last, prev>>

\* lines 598-668: "1. Set/Update Proxy" with a server and a selection; an
\* empty mask goes back to the menu (lines 659-662)
ChooseSet(proxyServer, input) ==
    /\ AtMenu
    /\ envInput' = input
    /\ selectedEnvs' = parseEnvironmentSelection(input)
    /\ run' = IF selectedEnvs' = 0 THEN run
              ELSE StartApply(proxyServer, TRUE, selectedEnvs')
    /\ UNCHANGED <<ProxyServer, ProxyEnable, profile, settings, npmrc>>
    /\ ApplyFrame

\* lines 670-695: "2. Unset Proxy" with a selection
ChooseUnset(input) ==
    /\ AtMenu
    /\ envInput' = input
    /\ selectedEnvs' = parseEnvironmentSelection(input)
    /\ run' = IF selectedEnvs' = 0 THEN run
              ELSE StartApply(<< >>, FALSE, selectedEnvs')
    /\ UNCHANGED <<ProxyServer, ProxyEnable, profile, settings, npmrc>>
    /\ ApplyFrame

\* lines 497-507
ApplySystem ==
    /\ run.program = "interactive" /\ run.pc = "system"
    /\ IF HasFlag(run.mask, ENV_SYSTEM)
       THEN \E io \in RegistryIO :
              LET r == setProxySettings(Store, run.server,
                                        IF run.enable THEN 1 ELSE 0, io)
              IN  /\ ProxyServer' = r.store.server
                  /\ ProxyEnable' = r.store.enable
                  /\ run' = Recorded(1, r.err, "powershell")
       ELSE /\ run' = [run EXCEPT !.pc = "powershell"]
            /\ UNCHANGED <<ProxyServer, ProxyEnable>>
    /\ UNCHANGED <<profile, settings, npmrc, envInput, selectedEnvs>>
    /\ ApplyFrame

\* lines 509-515
ApplyPowerShell ==
    /\ run.program = "interactive" /\ run.pc = "powershell"
    /\ IF HasFlag(run.mask, ENV_POWERSHELL)
       THEN \E io \in FileIO :
              LET r == updatePowerShellProfile(profile, run.server, run.enable, io)
              IN  /\ profile' = r.file
                  /\ run' = Recorded(2, r.err, "vscode")
       ELSE /\ run' = [run EXCEPT !.pc = "vscode"]
            /\ UNCHANGED profile
    /\ UNCHANGED <<ProxyServer, ProxyEnable, settings, npmrc, envInput,
                   selectedEnvs>>
    /\ ApplyFrame

\* lines 517-523; a panic of setVSCodeProxy (line 242) ends the process
ApplyVSCode ==
    /\ run.program = "interactive" /\ run.pc = "vscode"
    /\ IF HasFlag(run.mask, ENV_VSCODE)
       THEN \E io \in SettingsIO :
              LET r == setVSCodeProxy(settings, run.server, run.enable, io)
              IN  /\ settings' = r.file
                  /\ run' = IF r.panic THEN Panicked(3)
                            ELSE Recorded(3, r.err, "npm")
       ELSE /\ run' = [run EXCEPT !.pc = "npm"]
            /\ UNCHANGED settings
    /\ UNCHANGED <<ProxyServer, ProxyEnable, profile, npmrc, envInput,
                   selectedEnvs>>
    /\ ApplyFrame

\* lines 525-531, then the report (lines 533-551) and the menu
ApplyNpm ==
    /\ run.program = "interactive" /\ run.pc = "npm"
    /\ IF HasFlag(run.mask, ENV_NPM)
       THEN \E io \in NpmIO :
              LET r == setNpmProxy(npmrc, run.server, run.enable, io)
              IN  /\ npmrc' = r.file
                  /\ run' = Recorded(4, r.err, "done")
       ELSE /\ run' = [run EXCEPT !.pc = "done"]
            /\ UNCHANGED npmrc
    /\ UNCHANGED <<ProxyServer, ProxyEnable, profile, settings, envInput,
                   selectedEnvs>>
    /\ ApplyFrame

-----------------------------------------------------------------------------
(* Specification SpecApply: the interactive program, from a machine whose  *)
(* four surfaces are empty or hold the proxy 10.0.0.2:10808                *)

\* the digits of a set of surfaces, in order: "13" for {1, 3}
DigitsOf(S) == SelectSeq(<<"1", "2", "3", "4">>, LAMBDA c : c \in S)

\* the selections typed: ENTER, "a", no digit, and each set of digits
SelectionInputs ==
    {<< >>, <<"a">>, <<"x">>} \cup
    {DigitsOf(S) : S \in (SUBSET {"1", "2", "3", "4"}) \ {{}}}

\* the servers chosen at lines 621-642: the gateway and localhost
ChosenServers == {Endpoint("10.0.0.1"), Endpoint("127.0.0.1")}

OtherServer == Endpoint("10.0.0.2")

InitApply ==
    /\ \/ ProxyServer = << >> /\ ProxyEnable = 0
       \/ ProxyServer = OtherServer /\ ProxyEnable = 1
    /\ profile \in {NoFile,
                    File(Join(<< <<"x", CR>>, proxyBlock(OtherServer) >>))}
    /\ settings \in {NoFile, File(<<"null">>),
                     File(<<"{">> \o Member(<<"editor.fontSize">>, <<"14">>)
                          \o <<"}">>)}
    /\ npmrc \in {NoFile,
                  File(Join(<< <<"x">>, NpmProxyLine(OtherServer), << >> >>))}
    /\ orig = NoFile
    /\ before = << >>
    /\ last = NoCall
    /\ prev = NoCall
    /\ envInput = << >>
    /\ selectedEnvs = -1
    /\ run = NoRun

NextApply ==
    \/ \E s \in ChosenServers, input \in SelectionInputs : ChooseSet(s, input)
    \/ \E input \in SelectionInputs : ChooseUnset(input)
    \/ ApplySystem
    \/ ApplyPowerShell
    \/ ApplyVSCode
    \/ ApplyNpm

SpecApply == InitApply /\ [][NextApply]_vars

-----------------------------------------------------------------------------
(* Properties of applyProxySettings *)

InSeq(x, s) == \E i \in DOMAIN s : s[i] = x

\* applyProxySettings is over: it returned, or the process ended in it
ApplyOver == run.program = "interactive" /\ run.pc \in {"done", "crashed"}

\* C7: when applyProxySettings is over, the setter of each surface of the
\* mask was invoked exactly once whatever the others did, each one that
\* succeeded is in the success list and not in the error list, each one that
\* failed is in the error list and not in the success list; no other setter
\* was invoked.
C7_PartialFailure ==
    ApplyOver =>
        \A n \in 1..4 :
            IF HasFlag(run.mask, envFlags[n])
            THEN /\ run.invoked[n] = 1
                 /\ run.outcome[n] = "ok" =>
                        InSeq(envNames[n], run.success)
                        /\ ~InSeq(envNames[n], run.errors)
                 /\ run.outcome[n] # "ok" =>
                        InSeq(envNames[n], run.errors)
                        /\ ~InSeq(envNames[n], run.success)
            ELSE run.invoked[n] = 0

-----------------------------------------------------------------------------
(* Specification SpecConsistency: the interactive program, from machines   *)
(* whose four surfaces disagree: a store that holds the address of another *)
(* server, switched on or off, a profile that is missing, holds a block or *)
(* a lone sentinel, a settings.json that is null, cut short or holds the   *)
(* proxy of the other server, a .npmrc that is missing or holds two proxy  *)
(* lines.  The surfaces found are kept in before and last.                 *)

ConsistencyStores ==
    { [server |-> OtherServer, enable |-> 1],
      [server |-> OtherServer, enable |-> 0] }

ConsistencyProfiles ==
    { NoFile,
      File(Join(<< <<"x", CR>>, proxyBlock(OtherServer) >>)),
      File(Join(<< Sentinel, <<"x">> >>)) }

ConsistencySettings ==
    { File(<<"null">>),
      File(<<"{", QUOTE, "editor.fontSize", QUOTE, ":">>),
      File(<<"{">>
           \o JoinMembers(<< Member(<<"editor.fontSize">>, <<"14">>),
                             Member(HttpProxyKey,
                                    <<QUOTE, "http://">> \o OtherServer
                                        \o <<QUOTE>>) >>)
           \o <<"}">>) }

ConsistencyNpmrcs ==
    { NoFile,
      File(Join(<< <<"x">>, <<SP, "proxy=", "x", CR>>,
                   NpmProxyLine(OtherServer), << >> >>)) }

InitConsistency ==
    /\ \E st \in ConsistencyStores :
           /\ ProxyServer = st.server
           /\ ProxyEnable = st.enable
    /\ profile \in ConsistencyProfiles
    /\ settings \in ConsistencySettings
    /\ npmrc \in ConsistencyNpmrcs
    /\ orig = profile
    /\ before = <<profile, settings, npmrc>>
    /\ last = Call("found", ProxyServer, ProxyEnable = 1, "ok")
    /\ prev = NoCall
    /\ envInput = << >>
    /\ selectedEnvs = -1
    /\ run = NoRun

SpecConsistency == InitConsistency /\ [][NextApply]_vars

-----------------------------------------------------------------------------
(* Properties of the four surfaces together *)

\* applyProxySettings returned with the four surfaces in the mask and no
\* error recorded
AllFourSucceeded ==
    /\ run.program = "interactive" /\ run.pc = "done"
    /\ run.mask = 15
    /\ \A n \in 1..4 : run.outcome[n] = "ok"

\* the line of a profile that sets $proxy for server s
ProfileProxyLine(s) == <<"$proxy = \"http://">> \o s \o <<"\"">>

\* the profile holds one managed block, and it is for http://s: two sentinel
\* lines, the $proxy line for s between them and no other $proxy line
ProfileExpresses(s) ==
    LET lines == Split(profile.data)
        marks == {i \in DOMAIN lines : IsSentinelLine(lines[i])}
    IN  /\ Cardinality(marks) = 2
        /\ \E i \in DOMAIN lines :
               /\ lines[i] = ProfileProxyLine(s)
               /\ \E a, b \in marks : a < i /\ i < b
        /\ \A i \in DOMAIN lines :
               (Len(lines[i]) >= 1 /\ lines[i][1] = "$proxy = \"http://")
                   => lines[i] = ProfileProxyLine(s)

ProfileExpressesNone ==
    LET lines == Split(profile.data)
    IN  \A i \in DOMAIN lines :
            /\ ~IsSentinelLine(lines[i])
            /\ ~(Len(lines[i]) >= 1 /\ lines[i][1] = "$proxy = \"http://")

SettingsExpresses(s) ==
    LET P == ParseDocument(settings.data)
    IN  /\ settings.exists
        /\ P.kind = "object"
        /\ HttpProxyKey \in DOMAIN P.m
        /\ P.m[HttpProxyKey] = JsonString(<<"http://">> \o s)

SettingsExpressesNone ==
    LET P == ParseDocument(settings.data)
    IN  ~(P.kind = "object" /\ HttpProxyKey \in DOMAIN P.m)

NpmExpresses(s) ==
    LET out == LinesOf(npmrc.data)
    IN  /\ Cardinality({i \in DOMAIN out : IsProxyLine(out[i])}) = 1
        /\ \E i \in DOMAIN out : out[i] = <<"proxy=", "http://">> \o s

NpmExpressesNone ==
    LET out == LinesOf(npmrc.data)
    IN  \A i \in DOMAIN out : ~IsProxyLine(out[i])

\* C11: after applyProxySettings(s, enable, full mask) whose four setters
\* succeeded, from any state of the surfaces: on enable the store holds s
\* with flag 1, the profile one block for http://s, settings.json
\* http.proxy = http://s, .npmrc one line proxy=http://s; on disable the
\* store holds "" with flag 0 and the block, the key and the line are absent.
C11_Consistent ==
    AllFourSucceeded =>
        IF run.enable
        THEN /\ ProxyServer = run.server /\ ProxyEnable = 1
             /\ ProfileExpresses(run.server)
             /\ SettingsExpresses(run.server)
             /\ NpmExpresses(run.server)
        ELSE /\ ProxyServer = << >> /\ ProxyEnable = 0
             /\ ProfileExpressesNone
             /\ SettingsExpressesNone
             /\ NpmExpressesNone

\* C11 happens on enable: the store was off with the address of another
\* server, the profile held a lone sentinel, settings.json the proxy of the
\* other server and there was no .npmrc
C11_Witness ==
    /\ AllFourSucceeded /\ run.enable
    /\ run.server = Endpoint("10.0.0.1")
    /\ last = Call("found", OtherServer, FALSE, "ok")
    /\ before[1] = File(Join(<< Sentinel, <<"x">> >>))
    /\ ParseDocument(before[2].data).kind = "object"
    /\ HttpProxyKey \in DOMAIN ParseDocument(before[2].data).m
    /\ before[3] = NoFile
    /\ ProxyServer = run.server /\ ProxyEnable = 1
    /\ ProfileExpresses(run.server)
    /\ SettingsExpresses(run.server)
    /\ NpmExpresses(run.server)

\* the same on disable, from surfaces that all held the other server, the
\* settings.json being null
C11_WitnessDisable ==
    /\ AllFourSucceeded /\ ~run.enable
    /\ last = Call("found", OtherServer, TRUE, "ok")
    /\ MarkerCount(Split(before[1].data)) = 2
    /\ before[3].exists
    /\ ProxyServer = << >> /\ ProxyEnable = 0
    /\ ProfileExpressesNone /\ SettingsExpressesNone /\ NpmExpressesNone

-----------------------------------------------------------------------------
(* Specification SpecStore: the programs run one after the other on a      *)
(* machine whose store is empty and switched off, every setProxySettings   *)
(* call returning nil: runs of the two toggle programs, and Set and Unset  *)
(* of the interactive program with the System surface selected             *)

\* no program is in the middle of a run
Idle == run.pc \in {"menu", "done", "crashed", "exit"}

\* the interactive program is started again after a toggle run (line 554)
StartInteractive ==
    /\ run.pc = "exit"
    /\ run' = NoRun
    /\ UNCHANGED <<ProxyServer, ProxyEnable, profile, settings, npmrc, orig,
                   before, last, prev, envInput, selectedEnvs>>

\* a run of the toggle program with the profile whose setProxySettings
\* returned nil
StoreToggleProfileRun == Idle /\ ToggleProfileRun /\ ~run'.setErr

\* the same for the registry-only toggle program
StoreToggleRegistryRun == Idle /\ ToggleRegistryRun /\ ~run'.setErr

\* lines 497-507 with setProxySettings returning nil
StoreApplySystem == ApplySystem /\ run'.outcome[1] # "err"

\* the selections with the System surface
StoreSelections == {<< >>, <<"1">>, <<"1", "3">>}

\* the servers of lines 621-632: the gateway, localhost and a custom one
StoreServers == ChosenServers \cup {CustomServer}

InitStore ==
    /\ ProxyServer = << >>
    /\ ProxyEnable = 0
    /\ profile = NoFile
    /\ settings = NoFile
    /\ npmrc = NoFile
    /\ orig = NoFile
    /\ before = << >>
    /\ last = NoCall
    /\ prev = NoCall
    /\ envInput = << >>
    /\ selectedEnvs = -1
    /\ run = NoRun

NextStore ==
    \/ StoreToggleProfileRun
    \/ StoreToggleRegistryRun
    \/ StartInteractive
    \/ \E s \in StoreServers, input \in StoreSelections : ChooseSet(s, input)
    \/ \E input \in StoreSelections : ChooseUnset(input)
    \/ StoreApplySystem
    \/ ApplyPowerShell
    \/ ApplyVSCode
    \/ ApplyNpm

SpecStore == InitStore /\ [][NextStore]_vars

-----------------------------------------------------------------------------
(* Properties of the store *)

\* ProxyServer is "" exactly when ProxyEnable is 0: the test
\* currentProxy != "" (lines 160, 789) agrees with the flag
StoreCoherent == (ProxyServer # << >>) <=> (ProxyEnable = 1)

\* the last program run was a toggle run whose setProxySettings returned nil
ToggledOk ==
    /\ run.program \in {"toggle", "toggle_registry"}
    /\ run.setCalled /\ ~run.setErr

\* a step that is a toggle run with the gateway of the toggle run before it,
\* which had found the store empty and switched off
SecondToggle ==
    /\ ToggledOk
    /\ run.wasServer = << >> /\ run.wasEnable = 0
    /\ run' # run
    /\ run'.program \in {"toggle", "toggle_registry"}
    /\ run'.setCalled /\ ~run'.setErr
    /\ run'.gateway = run.gateway

\* C13: from an empty store switched off, whatever the programs wrote with
\* success, ProxyServer is non-empty exactly when ProxyEnable = 1; and the
\* second of two toggle runs in a row with the same gateway, the first from
\* the disabled store, leaves the store disabled again.
C13_StoreCoherence ==
    /\ []StoreCoherent
    /\ [][SecondToggle => (ProxyServer' = << >> /\ ProxyEnable' = 0)]_vars

\* C13 happens: a toggle run found the endpoint of its gateway switched on and
\* disabled it, the interactive program having written the profile before
C13_Witness ==
    /\ ToggledOk
    /\ run.action = "Disable"
    /\ run.wasServer = Endpoint(run.gateway) /\ run.wasEnable = 1
    /\ ProxyServer = << >> /\ ProxyEnable = 0
    /\ settings.exists

====
